---- MODULE Spec2Model ----
(***************************************************************************)
(* A model of the RedshiftConnector of src/connector/rs_connect.py and of  *)
(* the request handlers that use it.  The database client (psycopg2) and   *)
(* the secret store (boto3 secretsmanager) are the environment: every call *)
(* into them either succeeds or raises, chosen nondeterministically.       *)
(***************************************************************************)
EXTENDS Integers, Sequences, FiniteSets, TLC

VARIABLES
    obj,          \* "none" before __init__, "live" after it returned, "failed" when it raised
    secretStore,  \* the credential mapping currently held by the secret store
    credentials,  \* self.credentials: None until resolved, then Some(mapping)
    host, port, user, pwd, db,   \* self.host .. self.db, assigned by _init_conn
    conn,         \* self.conn: index into conns, 0 while the attribute is unset
    cursor,       \* self.cursor: index of the connection it was opened on, 0 while unset
    cursorClosed, \* whether self.cursor.close() has run
    autocommitArg,\* the autocommit argument given to __init__
    conns,        \* every connection psycopg2.connect has returned, in order
    last,         \* the last operation: its statement, binds, client calls, result, exception
    call          \* the call the connector's user is about to make, NoCall when none is pending

vars == <<obj, secretStore, credentials, host, port, user, pwd, db, conn, cursor,
          cursorClosed, autocommitArg, conns, last, call>>

----------------------------------------------------------------------------
(* Bounds of the model *)

\* the largest number of connections opened during one run
MaxConns == 3

\* the largest number of rows a SELECT without LIMIT yields
MaxRows == 3

\* the largest number of items of a data mapping
MaxKeys == 2

\* the largest number of fields of a columnar schema
MaxFields == 2

----------------------------------------------------------------------------
(* Python values *)

None == <<>>
Some(v) == <<v>>

\* Python truthiness of an optional sequence-like value (None and empty are falsy)
Truthy(o) == o # None /\ Len(o[1]) > 0

\* the elements of a sequence
Range(s) == {s[i] : i \in 1..Len(s)}

\* the position of the first occurrence of e in s, 0 when absent
IndexOf(s, e) == IF e \in Range(s) THEN CHOOSE i \in 1..Len(s) : s[i] = e /\ \A j \in 1..(i-1) : s[j] # e ELSE 0

CredA == [host |-> "h1", port |-> 5439, username |-> "u1", password |-> "p1"]
CredB == [host |-> "h2", port |-> 5440, username |-> "u2", password |-> "p2"]
CredSet == {CredA, CredB}

Databases == {"dev", "db2"}

\* what cursor.execute / execute_values can raise; "none" is success
DbErrors == {"none", "ProgrammingError", "OperationalError"}

\* the record of one operation: its arguments, the statement and the bind sequence
\* handed to the client, the calls made in order, a call that raised being followed by
\* the name of its exception ("print(error)" is the diagnostic an except clause prints),
\* the exception that left the operation ("none" when it returned) and its result
Op(name, args, sql, params, calls, raised, result) ==
    [op |-> name, args |-> args, sql |-> sql, params |-> params, calls |-> calls,
     raised |-> raised, result |-> result]

NoArgs == [none |-> TRUE]

\* one call in the trace: its name, followed by the exception it raised if it raised
Call(name, e) == IF e = "none" THEN <<name>> ELSE <<name, e>>

NoCall == [op |-> "none"]

\* a cols argument: a string, or a list of column names
ColsStr(x) == [kind |-> "str", s |-> x, l |-> <<>>]
ColsList(xs) == [kind |-> "list", s |-> "", l |-> xs]

NoOp == Op("none", NoArgs, <<>>, None, <<>>, "none", <<>>)

----------------------------------------------------------------------------
(* Strings.  A SQL string is the sequence of the pieces it was concatenated   *)
(* from; a formatted integer is its decimal digits.                           *)

Min(a, b) == IF a < b THEN a ELSE b
Max(a, b) == IF a > b THEN a ELSE b

Digits == <<"0", "1", "2", "3", "4", "5", "6", "7", "8", "9">>

\* "%d" % n for n >= 0
RECURSIVE Fmt_d(_)
Fmt_d(n) == IF n < 10 THEN Digits[n + 1] ELSE Fmt_d(n \div 10) \o Digits[(n % 10) + 1]

\* sep.join(xs)
RECURSIVE Join(_, _)
Join(xs, sep) ==
    IF Len(xs) = 0 THEN <<>>
    ELSE IF Len(xs) = 1 THEN <<xs[1]>>
    ELSE <<xs[1], sep>> \o Join(Tail(xs), sep)

\* s.rstrip(ch): trailing pieces that are ch (or empty) are dropped
RECURSIVE RStrip(_, _)
RStrip(s, ch) ==
    IF Len(s) > 0 /\ (s[Len(s)] = ch \/ s[Len(s)] = "")
    THEN RStrip(SubSeq(s, 1, Len(s) - 1), ch)
    ELSE s

\* rows[k:] of Python, k possibly negative
PySliceFrom(rows, k) ==
    LET n == Len(rows)
        start == IF k < 0 THEN Max(n + k, 0) ELSE Min(k, n)
    IN  SubSeq(rows, start + 1, n)

\* a dict is the sequence of its items in iteration order
Keys(data) == [i \in 1..Len(data) |-> data[i].k]
Values(data) == [i \in 1..Len(data) |-> data[i].v]

----------------------------------------------------------------------------
(* Clause builders *)

DTYPES == [string |-> "VARCHAR(256)", int |-> "INTEGER", integer |-> "INTEGER",
           double |-> "NUMERIC(18,0)"]

RESERVED_KEYWORDS == {"year"}

\* _format_insert with one placeholder too many
_format_insert_extra(data) ==
    [cols |-> Join(Keys(data), ","),
     vals |-> Join([i \in 1..(Len(data) + 1) |-> "%s"], ",")]

\* _format_insert(data): (cols, vals)
_format_insert(data) ==
    [cols |-> Join(Keys(data), ","),
     vals |-> Join([i \in 1..Len(data) |-> "%s"], ",")]

\* _format_update(data)
_format_update(data) == Join(Keys(data), "=%s,") \o <<"=%s">>

\* _where(where)
_where(where) == IF Truthy(where) THEN <<" WHERE ", where[1][1]>> ELSE <<>>

\* _order(order)
_order(order) ==
    IF Truthy(order)
    THEN <<" ORDER BY ", order[1][1]>>
         \o (IF Len(order[1]) > 1 THEN <<" ", order[1][2]>> ELSE <<>>)
    ELSE <<>>

\* _limit with the clause left out of the statement
_limit_omitted(limit) == <<>>

\* _limit(limit); a limit of None is the limit 0, the code tests only its truth
_limit(limit) == IF limit # 0 THEN <<" LIMIT ", Fmt_d(limit)>> ELSE <<>>

\* _offset(offset)
_offset(offset) == IF offset # 0 THEN <<" OFFSET ", Fmt_d(offset)>> ELSE <<>>

\* _returning(returning)
_returning(returning) == IF returning # "" THEN <<" RETURNING ", returning>> ELSE <<>>

\* _select(table, cols, where, order, limit, offset)
_select(table, columns, where, order, limit, offset) ==
    <<"SELECT ">> \o columns \o <<" FROM ", table>>
        \o _where(where) \o _order(order) \o _limit(limit) \o _offset(offset)

\* the column string retrieve builds from its cols argument
retrieve_columns(cols) ==
    IF cols.kind = "str"
    THEN IF cols.s = "all" THEN <<"*">> ELSE <<cols.s>>
    ELSE RStrip(Join(cols.l, ","), ",")

\* the column string retrieve_dict builds from its cols argument
retrieve_dict_columns(cols) ==
    IF cols.kind = "str"
    THEN IF cols.s = "all" \/ cols.s = "*" THEN <<"*">> ELSE <<cols.s>>
    ELSE RStrip(Join(cols.l, ","), ",")

\* where[1] if where and len(where) == 2 else None
select_params(where) ==
    IF Truthy(where) /\ Len(where[1]) = 2 THEN Some(where[1][2]) ELSE None

----------------------------------------------------------------------------
(* The database server *)

\* the integer a digit string denotes
ParseInt(s) == CHOOSE n \in 0..99 : Fmt_d(n) = s

\* the rows a SELECT yields when the same statement without LIMIT yields unlimited
DbSelect(sql, unlimited) ==
    LET i == IndexOf(sql, " LIMIT ")
    IN  IF i = 0 THEN unlimited
        ELSE SubSeq(unlimited, 1, Min(ParseInt(sql[i + 1]), Len(unlimited)))

----------------------------------------------------------------------------
(* Credential resolution *)

\* the error codes get_credentials prints a diagnostic for
LoggedCodes == {"ResourceNotFoundException", "InvalidRequestException",
                "InvalidParameterException", "DecryptionFailure", "InternalServiceError"}

\* a ClientError code outside the if/elif chain
OtherCodes == {"AccessDeniedException"}

\* outcomes of secrets_client.get_secret_value: a response with or without a
\* SecretString, a ClientError with some code, or an error that is no ClientError
SecretOutcomes == {"SecretString", "SecretBinary", "EndpointConnectionError"}
                    \cup LoggedCodes \cup OtherCodes

\* get_credentials that looks the secret up a second time after a ClientError
get_credentials_retry(outcome) ==
    IF outcome \in {"SecretString", "SecretBinary", "EndpointConnectionError"}
    THEN [cred |-> IF outcome = "SecretString" THEN Some(secretStore) ELSE None,
          calls |-> Call("get_secret_value",
                         IF outcome = "EndpointConnectionError" THEN outcome ELSE "none"),
          raised |-> IF outcome = "SecretString" THEN "none"
                     ELSE IF outcome = "SecretBinary" THEN "AssertionError" ELSE outcome]
    ELSE [cred |-> Some(secretStore),
          calls |-> <<"get_secret_value", outcome, "print(error)", "get_secret_value">>,
          raised |-> "none"]

get_credentials(outcome) ==
    IF outcome = "SecretString"
    THEN [cred |-> Some(secretStore), calls |-> <<"get_secret_value">>, raised |-> "none"]
    ELSE IF outcome = "SecretBinary"
    THEN [cred |-> None, calls |-> <<"get_secret_value">>, raised |-> "AssertionError"]
    ELSE IF outcome \in LoggedCodes
    THEN [cred |-> None, calls |-> <<"get_secret_value", outcome, "print(error)">>,
          raised |-> "AssertionError"]
    ELSE IF outcome \in OtherCodes
    THEN [cred |-> None, calls |-> <<"get_secret_value", outcome>>, raised |-> "AssertionError"]
    ELSE [cred |-> None, calls |-> <<"get_secret_value", outcome>>, raised |-> outcome]

----------------------------------------------------------------------------
(* Connections *)

OpenConns == {i \in 1..Len(conns) : ~conns[i].closed}

\* _init_conn(db, credentials): the self.* fields it assigns and the connection
\* psycopg2.connect returns; subscripting None raises before anything is assigned
_init_conn(dbname, cred, connectErr) ==
    IF cred = None
    THEN [assigned |-> FALSE, raised |-> "TypeError", calls |-> <<>>]
    ELSE [assigned |-> TRUE,
          host |-> cred[1].host, port |-> cred[1].port,
          user |-> cred[1].username, pwd |-> cred[1].password, db |-> dbname,
          raised |-> connectErr,
          calls |-> Call("connect", connectErr)]

\* the connection psycopg2.connect(host=self.host, ...) opens once the fields are assigned
Connected(r) ==
    [database |-> r.db, host |-> r.host, port |-> r.port, user |-> r.user,
     password |-> r.pwd, autocommit |-> FALSE, closed |-> FALSE, pending |-> FALSE]

\* __init__(db, secret, region, creds, autocommit)
Construct(dbname, useSecret, credsArg, ac, outcome, connectErr) ==
    /\ obj = "none"
    /\ LET g == get_credentials(outcome)
           resolved == IF useSecret THEN g.cred
                       ELSE IF credsArg # None THEN credsArg ELSE None
           pre == IF useSecret THEN g.calls ELSE <<>>
       IN  IF useSecret /\ g.raised # "none"
           THEN /\ obj' = "failed"
                /\ last' = Op("__init__", NoArgs, <<>>, None, pre, g.raised, <<>>)
                /\ UNCHANGED <<credentials, host, port, user, pwd, db, conn, cursor,
                               cursorClosed, autocommitArg, conns>>
           ELSE IF resolved = None
           THEN \* neither branch assigned self.credentials: line 43 reads an unset attribute
                /\ obj' = "failed"
                /\ last' = Op("__init__", NoArgs, <<>>, None, pre, "AttributeError", <<>>)
                /\ UNCHANGED <<credentials, host, port, user, pwd, db, conn, cursor,
                               cursorClosed, autocommitArg, conns>>
           ELSE LET r == _init_conn(dbname, resolved, connectErr)
                IN  /\ credentials' = resolved
                    /\ host' = r.host /\ port' = r.port /\ user' = r.user
                    /\ pwd' = r.pwd /\ db' = r.db
                    /\ IF r.raised # "none"
                       THEN /\ obj' = "failed"
                            /\ last' = Op("__init__", NoArgs, <<>>, None, pre \o r.calls, r.raised, <<>>)
                            /\ UNCHANGED <<conn, cursor, cursorClosed, autocommitArg, conns>>
                       ELSE /\ obj' = "live"
                            /\ conns' = Append(conns, [Connected(r) EXCEPT !.autocommit = ac])
                            /\ conn' = Len(conns) + 1
                            /\ cursor' = Len(conns) + 1
                            /\ cursorClosed' = FALSE
                            /\ autocommitArg' = ac
                            /\ last' = Op("__init__", NoArgs, <<>>, None,
                                          pre \o r.calls \o <<"conn.cursor">>, "none", <<>>)
    /\ UNCHANGED secretStore

\* the secret store's owner rotates the secret (environment)
RotateSecret ==
    /\ \E c \in CredSet : c # secretStore /\ secretStore' = c
    /\ UNCHANGED <<obj, credentials, host, port, user, pwd, db, conn, cursor,
                   cursorClosed, autocommitArg, conns, last>>

\* connection properties read afresh from the secret store
connection_properties_fresh == Some(secretStore)

\* switch_database(db_name)
connection_properties == IF conn # 0 THEN credentials ELSE None

\* self.conn.commit() / self.conn.rollback() on connection i of cs
conn_commit(cs, i) ==
    IF cs[i].closed
    THEN [conns |-> cs, raised |-> "InterfaceError"]
    ELSE [conns |-> [cs EXCEPT ![i].pending = FALSE], raised |-> "none"]

SwitchDatabase(name, connectErr) ==
    /\ obj = "live"
    /\ Len(conns) < MaxConns
    /\ LET props == connection_properties
           c == IF conn # 0 THEN conn_commit(conns, conn)
                ELSE [conns |-> conns, raised |-> "none"]
           pre == IF conn # 0 THEN Call("conn.commit", c.raised) ELSE <<>>
       IN  IF c.raised # "none"
           THEN /\ last' = Op("switch_database", NoArgs, <<>>, None, pre, c.raised, <<>>)
                /\ UNCHANGED <<host, port, user, pwd, db, conn, conns>>
           ELSE LET r == _init_conn(name, props, connectErr)
                IN  IF ~r.assigned
                    THEN /\ last' = Op("switch_database", NoArgs, <<>>, None, pre \o r.calls, r.raised, <<>>)
                         /\ conns' = c.conns
                         /\ UNCHANGED <<host, port, user, pwd, db, conn>>
                    ELSE /\ host' = r.host /\ port' = r.port /\ user' = r.user
                         /\ pwd' = r.pwd /\ db' = r.db
                         /\ last' = Op("switch_database", NoArgs, <<>>, None, pre \o r.calls, r.raised, <<>>)
                         /\ IF r.raised # "none"
                            THEN conns' = c.conns /\ conn' = conn
                            ELSE /\ conns' = Append(c.conns, Connected(r))
                                 /\ conn' = Len(conns) + 1
    /\ UNCHANGED <<obj, secretStore, credentials, cursor, cursorClosed, autocommitArg>>

\* close()
Close ==
    /\ obj = "live"
    /\ IF conn = 0
       THEN /\ last' = Op("close", NoArgs, <<>>, None, <<>>, "none", <<>>)
            /\ UNCHANGED <<conns, cursorClosed>>
       ELSE LET c == conn_commit(conns, conn)
            IN  IF c.raised # "none"
                THEN /\ last' = Op("close", NoArgs, <<>>, None, Call("conn.commit", c.raised),
                                   c.raised, <<>>)
                     /\ UNCHANGED <<conns, cursorClosed>>
                ELSE /\ cursorClosed' = TRUE
                     /\ conns' = [c.conns EXCEPT ![conn].closed = TRUE]
                     /\ last' = Op("close", NoArgs, <<>>, None,
                                   <<"conn.commit", "cursor.close", "conn.close">>, "none", <<>>)
    /\ UNCHANGED <<obj, secretStore, credentials, host, port, user, pwd, db, conn, cursor,
                   autocommitArg>>

\* commit()
Commit ==
    /\ obj = "live"
    /\ LET c == conn_commit(conns, conn)
       IN  /\ conns' = c.conns
           /\ last' = Op("commit", NoArgs, <<>>, None, Call("conn.commit", c.raised), c.raised, <<>>)
    /\ UNCHANGED <<obj, secretStore, credentials, host, port, user, pwd, db, conn, cursor,
                   cursorClosed, autocommitArg>>

\* rollback()
Rollback ==
    /\ obj = "live"
    /\ LET c == conn_commit(conns, conn)
       IN  /\ conns' = c.conns
           /\ last' = Op("rollback", NoArgs, <<>>, None, Call("conn.rollback", c.raised), c.raised, <<>>)
    /\ UNCHANGED <<obj, secretStore, credentials, host, port, user, pwd, db, conn, cursor,
                   cursorClosed, autocommitArg>>

----------------------------------------------------------------------------
(* Statement execution *)

rest == <<obj, secretStore, credentials, host, port, user, pwd, db, conn, cursor,
          cursorClosed, autocommitArg>>

\* what cursor.execute raises on a cursor of connection c when the server answers err
cursor_execute(c, curClosed, err) ==
    IF curClosed \/ conns[c].closed THEN "InterfaceError" ELSE err

\* a statement has run on connection i: outside autocommit its work is pending
Ran(cs, i) == [cs EXCEPT ![i].pending = cs[i].pending \/ ~cs[i].autocommit]

\* _execute that prints the error and returns instead of re-raising
_execute_swallow(err) ==
    LET e == cursor_execute(cursor, cursorClosed, err)
    IN  [raised |-> "none",
         calls |-> Call("cursor.execute", e) \o (IF e = "none" THEN <<>> ELSE <<"print(error)">>),
         conns |-> IF e = "none" THEN Ran(conns, cursor) ELSE conns]

\* _execute(sql, params): runs on the shared cursor; on an error prints and re-raises
_execute(err) ==
    LET e == cursor_execute(cursor, cursorClosed, err)
    IN  [raised |-> e,
         calls |-> Call("cursor.execute", e) \o (IF e = "none" THEN <<>> ELSE <<"print(error)">>),
         conns |-> IF e = "none" THEN Ran(conns, cursor) ELSE conns]

\* self.cursor.execute(...), or execute_values(cur=self.cursor, ...), called directly:
\* nothing catches what it raises
raw_execute(name, err) ==
    LET e == cursor_execute(cursor, cursorClosed, err)
    IN  [raised |-> e, calls |-> Call(name, e),
         conns |-> IF e = "none" THEN Ran(conns, cursor) ELSE conns]

\* the commit issued whether or not the statement raised
then_commit_always(e) ==
    LET c == conn_commit(e.conns, conn)
    IN  [raised |-> IF e.raised # "none" THEN e.raised ELSE c.raised,
         calls |-> e.calls \o Call("conn.commit", c.raised),
         conns |-> c.conns]

\* self.conn.commit() after the statement e of create / truncate / drop / copy
then_commit(e) ==
    IF e.raised # "none" THEN e
    ELSE LET c == conn_commit(e.conns, conn)
         IN  [raised |-> c.raised, calls |-> e.calls \o Call("conn.commit", c.raised),
              conns |-> c.conns]

\* create(table, schema)
Create(table, schema, err) ==
    /\ obj = "live"
    /\ LET sql == <<"CREATE TABLE ", table, " (", schema, ")">>
           r == then_commit(_execute(err))
       IN  /\ conns' = r.conns
           /\ last' = Op("create", [table |-> table, schema |-> schema], sql, None,
                         r.calls, r.raised, <<>>)
    /\ UNCHANGED rest

\* truncate(table, restart_identity, cascade)
Truncate(table, restart_identity, cascade, err) ==
    /\ obj = "live"
    /\ LET sql == <<"TRUNCATE ", table>>
                  \o (IF restart_identity THEN <<" RESTART IDENTITY">> ELSE <<>>)
                  \o (IF cascade THEN <<" CASCADE">> ELSE <<>>)
           r == then_commit(_execute(err))
       IN  /\ conns' = r.conns
           /\ last' = Op("truncate", [table |-> table, restart_identity |-> restart_identity,
                                      cascade |-> cascade], sql, None, r.calls, r.raised, <<>>)
    /\ UNCHANGED rest

\* drop(table, cascade)
Drop(table, cascade, err) ==
    /\ obj = "live"
    /\ LET sql == <<"DROP TABLE IF EXISTS ", table>>
                  \o (IF cascade THEN <<" CASCADE">> ELSE <<>>)
           r == then_commit(_execute(err))
       IN  /\ conns' = r.conns
           /\ last' = Op("drop", [table |-> table, cascade |-> cascade], sql, None,
                         r.calls, r.raised, <<>>)
    /\ UNCHANGED rest

\* copy_from_s3_to_rs(table, s3_path, iam_role, delimiter, file_type)
CopyFromS3(table, s3_path, iam_role, delimiter, file_type, err) ==
    /\ obj = "live"
    /\ LET sql == <<"copy ", table, " from '", s3_path, "' iam_role '", iam_role,
                    "' delimiter '", delimiter, "' ", file_type, ";">>
           r == then_commit(_execute(err))
       IN  /\ conns' = r.conns
           /\ last' = Op("copy_from_s3_to_rs", [table |-> table, s3_path |-> s3_path], sql, None,
                         r.calls, r.raised, <<>>)
    /\ UNCHANGED rest

\* create_schema(schema_name)
CreateSchema(schema_name, err) ==
    /\ obj = "live"
    /\ LET r == _execute(err)
       IN  /\ conns' = r.conns
           /\ last' = Op("create_schema", [schema_name |-> schema_name],
                         <<"CREATE SCHEMA IF NOT EXISTS ", schema_name>>, None,
                         r.calls, r.raised, <<>>)
    /\ UNCHANGED rest

\* get_version()
GetVersion(err) ==
    /\ obj = "live"
    /\ LET r == raw_execute("cursor.execute", err)
       IN  /\ conns' = r.conns
           /\ last' = Op("get_version", NoArgs, <<"SELECT version()">>, None,
                         <<"print(banner)">> \o r.calls
                            \o (IF r.raised = "none" THEN <<"cursor.fetchone", "print(version)">>
                                ELSE <<>>),
                         r.raised, <<>>)
    /\ UNCHANGED rest

\* list_tables()
ListTables(tables, err) ==
    /\ obj = "live"
    /\ LET r == raw_execute("cursor.execute", err)
       IN  /\ conns' = r.conns
           /\ last' = Op("list_tables", NoArgs,
                         <<"select relname from pg_class where relkind='r' and relname !~ '^(pg_|sql_)';">>,
                         None,
                         r.calls \o (IF r.raised = "none" THEN <<"cursor.fetchall">> ELSE <<>>),
                         r.raised,
                         IF r.raised = "none" THEN tables ELSE <<>>)
    /\ UNCHANGED rest

\* self.conn.cursor(...): a fresh cursor on the current connection
conn_cursor == IF conns[conn].closed THEN "InterfaceError" ELSE "none"

\* the rows a cursor hands out, each tagged with the shape its factory gives it
Fetched(rows, shape) == [i \in 1..Len(rows) |-> [shape |-> shape, id |-> rows[i]]]

\* [dict(i) for i in rows]
AsDicts(rows) == [i \in 1..Len(rows) |-> [shape |-> "dict", id |-> rows[i].id]]

\* execute(sql, return_type)
Execute(sql, return_type, rows, err) ==
    /\ obj = "live"
    /\ LET dictCursor == (return_type = Some("d")) \/ ("dict" # "")
           factory == IF dictCursor THEN "conn.cursor(RealDictCursor)" ELSE "conn.cursor"
           shape == IF dictCursor THEN "RealDictRow" ELSE "tuple"
           c == conn_cursor
           e == IF c # "none" THEN c ELSE err
           fetched == Fetched(rows, shape)
       IN  IF c # "none"
           THEN /\ last' = Op("execute", [return_type |-> return_type], sql, None,
                              Call(factory, c), c, <<>>)
                /\ UNCHANGED conns
           ELSE IF e # "none"
           THEN /\ last' = Op("execute", [return_type |-> return_type], sql, None,
                              <<factory, "cursor.execute", e, "print(error)">>, e, <<>>)
                /\ UNCHANGED conns
           ELSE /\ conns' = Ran(conns, conn)
                /\ last' = Op("execute", [return_type |-> return_type], sql, None,
                              <<factory, "cursor.execute", "cursor.fetchall">>, "none",
                              IF ~Truthy(return_type) THEN fetched ELSE AsDicts(fetched))
    /\ UNCHANGED rest

\* retrieve_dict(table, cols, where, order, limit)
RetrieveDict(table, cols, where, order, limit, unlimited, err) ==
    /\ obj = "live"
    /\ LET c == conn_cursor
           sql == _select(table, retrieve_dict_columns(cols), where, order, limit, 0)
           params == select_params(where)
           args == [table |-> table, cols |-> cols, where |-> where, order |-> order,
                    limit |-> limit, unlimited |-> unlimited]
       IN  IF c # "none"
           THEN /\ last' = Op("retrieve_dict", args, <<>>, None,
                              Call("conn.cursor(RealDictCursor)", c), c, <<>>)
                /\ UNCHANGED conns
           ELSE IF err # "none"
           THEN /\ last' = Op("retrieve_dict", args, sql, params,
                              <<"conn.cursor(RealDictCursor)", "cursor.execute", err>>, err, <<>>)
                /\ UNCHANGED conns
           ELSE /\ conns' = Ran(conns, conn)
                /\ last' = Op("retrieve_dict", args, sql, params,
                              <<"conn.cursor(RealDictCursor)", "cursor.execute", "cursor.fetchall">>,
                              "none",
                              AsDicts(Fetched(DbSelect(sql, unlimited), "RealDictRow")))
    /\ UNCHANGED rest

\* insert_many(table, data, returning)
InsertMany(table, data, returning, err) ==
    /\ obj = "live"
    /\ LET args == [table |-> table, data |-> data, returning |-> returning]
       IN  IF ~data.isList
           THEN /\ last' = Op("insert_many", args, <<>>, None, <<>>, "AssertionError", <<>>)
                /\ UNCHANGED conns
           ELSE IF Len(data.rows) = 0
           THEN /\ last' = Op("insert_many", args, <<>>, None, <<>>, "IndexError", <<>>)
                /\ UNCHANGED conns
           ELSE LET arg_vals == [i \in 1..Len(data.rows) |-> Values(data.rows[i])]
                    sql == <<"INSERT INTO ", table, " (">> \o Join(Keys(data.rows[1]), ",")
                              \o <<") VALUES %s">> \o _returning(returning)
                    r == raw_execute("execute_values", err)
                IN  /\ conns' = r.conns
                    /\ last' = Op("insert_many", args, sql, Some(arg_vals),
                                  r.calls
                                     \o (IF r.raised = "none" /\ returning # ""
                                         THEN <<"cursor.fetchone">> ELSE <<>>),
                                  r.raised, <<>>)
    /\ UNCHANGED rest

\* retrieve(table, cols, where, order, limit)
Retrieve(table, cols, where, order, limit, unlimited, err) ==
    /\ obj = "live"
    /\ LET sql == _select(table, retrieve_columns(cols), where, order, limit, 0)
           params == select_params(where)
           args == [table |-> table, cols |-> cols, where |-> where, order |-> order,
                    limit |-> limit, unlimited |-> unlimited]
           r == _execute(err)
           rows == DbSelect(sql, unlimited)
       IN  /\ conns' = r.conns
           /\ last' = Op("retrieve", args, sql, params,
                         r.calls \o (IF r.raised = "none" THEN <<"cursor.fetchall">> ELSE <<>>),
                         r.raised,
                         IF r.raised = "none"
                         THEN PySliceFrom(rows, IF limit # 0 THEN Len(rows) - limit ELSE 0)
                         ELSE <<>>)
    /\ UNCHANGED rest

\* update's bind sequence with the condition's values put first
update_params_swapped(data, where) ==
    IF Truthy(where) /\ Len(where[1]) > 1
    THEN where[1][2] \o Values(data)
    ELSE Values(data)

\* the bind sequence update passes to _execute
update_params(data, where) ==
    IF Truthy(where) /\ Len(where[1]) > 1
    THEN Values(data) \o where[1][2]
    ELSE Values(data)

\* update(table, data, where, returning)
Update(table, data, where, returning, err) ==
    /\ obj = "live"
    /\ LET sql == <<"UPDATE ", table, " SET ">> \o _format_update(data)
                     \o _where(where) \o _returning(returning)
           r == _execute(err)
       IN  /\ conns' = r.conns
           /\ last' = Op("update", [table |-> table, data |-> data, where |-> where,
                                    returning |-> returning],
                         sql, Some(update_params(data, where)),
                         r.calls \o (IF r.raised # "none" THEN <<>>
                                     ELSE IF returning # "" THEN <<"cursor.fetchall">>
                                     ELSE <<"cursor.rowcount">>),
                         r.raised, <<>>)
    /\ UNCHANGED rest

\* insert(table, data, returning)
Insert(table, data, returning, err) ==
    /\ obj = "live"
    /\ LET f == _format_insert(data)
           sql == <<"INSERT INTO ", table, " (">> \o f.cols \o <<") VALUES(">> \o f.vals
                     \o <<")">> \o _returning(returning)
           r == _execute(err)
       IN  /\ conns' = r.conns
           /\ last' = Op("insert", [table |-> table, data |-> data, returning |-> returning],
                         sql, Some(Values(data)),
                         r.calls \o (IF r.raised # "none" THEN <<>>
                                     ELSE IF returning # "" THEN <<"cursor.fetchone">>
                                     ELSE <<"cursor.rowcount">>),
                         r.raised, <<>>)
    /\ UNCHANGED rest

\* delete(table, where, returning)
Delete(table, where, returning, err) ==
    /\ obj = "live"
    /\ LET sql == <<"DELETE FROM ", table>> \o _where(where) \o _returning(returning)
           r == _execute(err)
       IN  /\ conns' = r.conns
           /\ last' = Op("delete", [table |-> table, where |-> where, returning |-> returning],
                         sql,
                         IF Truthy(where) /\ Len(where[1]) > 1 THEN Some(where[1][2]) ELSE None,
                         r.calls \o (IF r.raised # "none" THEN <<>>
                                     ELSE IF returning # "" THEN <<"cursor.fetchall">>
                                     ELSE <<"cursor.rowcount">>),
                         r.raised, <<>>)
    /\ UNCHANGED rest

\* column_definition that never quotes
column_definition_unquoted(column, datatype) == <<column, " ", datatype, ",">>

\* the column definition create_table appends for one (column, type tag) field
column_definition(column, datatype) ==
    IF column \notin RESERVED_KEYWORDS
    THEN <<column, " ", datatype, ",">>
    ELSE <<"\"", column, "\"", " ", datatype, ",">>

\* the loop of create_table over df.dtypes; a tag outside DTYPES raises KeyError
RECURSIVE table_schema(_)
table_schema(fields) ==
    IF Len(fields) = 0 THEN [raised |-> "none", s |-> <<>>]
    ELSE IF fields[1].tag \notin DOMAIN DTYPES THEN [raised |-> "KeyError", s |-> <<>>]
    ELSE LET t == table_schema(Tail(fields))
         IN  IF t.raised # "none" THEN t
             ELSE [raised |-> "none",
                   s |-> column_definition(fields[1].col, DTYPES[fields[1].tag]) \o t.s]

\* create_table(df, db_schema, table_name, pk_column)
CreateTable(fields, db_schema, table_name, pk_column, err) ==
    /\ obj = "live"
    /\ LET t == table_schema(fields)
           args == [fields |-> fields, db_schema |-> db_schema, table_name |-> table_name,
                    pk_column |-> pk_column]
       IN  IF t.raised # "none"
           THEN /\ last' = Op("create_table", args, <<>>, None, <<>>, t.raised, <<>>)
                /\ UNCHANGED conns
           ELSE LET sql == <<"CREATE TABLE IF NOT EXISTS ", db_schema, ".", table_name, " (">>
                              \o RStrip(t.s, ",")
                              \o (IF pk_column # ""
                                  THEN <<"), PRIMARY KEY (", pk_column, ");">>
                                  ELSE <<");">>)
                    r == _execute(err)
                IN  /\ conns' = r.conns
                    /\ last' = Op("create_table", args, sql, None, r.calls, r.raised, <<>>)
    /\ UNCHANGED rest

InsertManyInputs ==
    {[isList |-> FALSE, rows |-> <<>>], [isList |-> TRUE, rows |-> <<>>],
     [isList |-> TRUE, rows |-> << <<[k |-> "id", v |-> 10]>> >>],
     [isList |-> TRUE, rows |-> << <<[k |-> "id", v |-> 10]>>, <<[k |-> "id", v |-> 20]>> >>]}

Init ==
    /\ obj = "none"
    /\ secretStore \in CredSet
    /\ credentials = None
    /\ host = "unset" /\ port = 0 /\ user = "unset" /\ pwd = "unset" /\ db = "unset"
    /\ conn = 0 /\ cursor = 0 /\ cursorClosed = FALSE
    /\ autocommitArg = FALSE
    /\ conns = <<>>
    /\ last = NoOp
    /\ call = NoCall

ConstructAny ==
    /\ \E dbname \in Databases, useSecret \in BOOLEAN, ac \in BOOLEAN,
          credsArg \in {None} \cup {Some(c) : c \in CredSet},
          outcome \in SecretOutcomes, connectErr \in {"none", "OperationalError"} :
           Construct(dbname, useSecret, credsArg, ac, outcome, connectErr)
    /\ UNCHANGED call

RotateSecretAny == RotateSecret /\ UNCHANGED call

SwitchAny ==
    /\ \E name \in Databases, connectErr \in {"none", "OperationalError"} :
           SwitchDatabase(name, connectErr)
    /\ UNCHANGED call

CloseAny == Close /\ UNCHANGED call

CommitAny == Commit /\ UNCHANGED call

RollbackAny == Rollback /\ UNCHANGED call

CreateAny ==
    /\ \E err \in DbErrors : Create("t", "id INT", err)
    /\ UNCHANGED call

TruncateAny ==
    /\ \E ri \in BOOLEAN, cascade \in BOOLEAN, err \in DbErrors : Truncate("t", ri, cascade, err)
    /\ UNCHANGED call

DropAny ==
    /\ \E cascade \in BOOLEAN, err \in DbErrors : Drop("t", cascade, err)
    /\ UNCHANGED call

CopyAny ==
    /\ \E err \in DbErrors : CopyFromS3("t", "s3://bucket/key", "role", ",", "csv", err)
    /\ UNCHANGED call

CreateSchemaAny ==
    /\ \E err \in DbErrors : CreateSchema("sch", err)
    /\ UNCHANGED call

GetVersionAny ==
    /\ \E err \in DbErrors : GetVersion(err)
    /\ UNCHANGED call

ListTablesAny ==
    /\ \E err \in DbErrors : ListTables(<<"t">>, err)
    /\ UNCHANGED call

ExecuteAny ==
    /\ \E return_type \in {None, Some("d"), Some("dict")}, err \in DbErrors :
           Execute(<<"select 1">>, return_type, <<1>>, err)
    /\ UNCHANGED call

RetrieveDictAny ==
    /\ \E where \in {None, Some(<<"id=%s", <<7>>>>)}, limit \in 0..1, err \in DbErrors :
           RetrieveDict("t", ColsStr("all"), where, None, limit, <<1, 2>>, err)
    /\ UNCHANGED call

InsertManyAny ==
    /\ \E data \in InsertManyInputs, returning \in {"", "id"}, err \in DbErrors :
           InsertMany("t", data, returning, err)
    /\ UNCHANGED call

Next ==
    \/ ConstructAny
    \/ RotateSecretAny
    \/ SwitchAny
    \/ CloseAny
    \/ CommitAny
    \/ RollbackAny
    \/ CreateAny
    \/ TruncateAny
    \/ DropAny
    \/ CopyAny
    \/ CreateSchemaAny
    \/ GetVersionAny
    \/ ListTablesAny
    \/ ExecuteAny
    \/ RetrieveDictAny
    \/ InsertManyAny

Spec == Init /\ [][Next]_vars

----------------------------------------------------------------------------
(* The query operations, each applied to one call drawn from bounded inputs *)

SeqsUpTo(S, n) == UNION {[1..k -> S] : k \in 0..n}

ColNames == {"id", "name", "year"}
DataVals == {10, 20}

\* mappings of at most MaxKeys items with distinct keys, in every iteration order
Dicts ==
    {d \in SeqsUpTo([k : ColNames, v : DataVals], MaxKeys) :
        \A i, j \in 1..Len(d) : i # j => d[i].k # d[j].k}

\* where arguments: None, an empty tuple, a predicate alone, a predicate with its values
WhereInputs ==
    {None, Some(<<>>), Some(<<"id=1">>), Some(<<"id=%s", <<7>>>>),
     Some(<<"id=%s and nm=%s", <<7, 8>>>>)}

OrderInputs == {None, Some(<<"id">>), Some(<<"id", "DESC">>)}

ColsInputs == {ColsStr("all"), ColsStr("id"), ColsList(<<"id", "name">>)}

TypeTags == {"string", "int", "integer", "double", "float"}

Schemas == SeqsUpTo([col : {"id", "year"}, tag : TypeTags], MaxFields)

\* the first m rows of the table, as row identifiers
Rows(m) == [i \in 1..m |-> i]

QueryCalls ==
    {[op |-> "retrieve", cols |-> c, where |-> w, order |-> o, limit |-> n, unlimited |-> Rows(m)] :
        c \in ColsInputs, w \in {None, Some(<<"id=%s", <<7>>>>)}, o \in OrderInputs,
        n \in 0..(MaxRows + 1), m \in 0..MaxRows}
    \cup {[op |-> "update", data |-> d, where |-> w, returning |-> r] :
        d \in Dicts, w \in WhereInputs, r \in {"", "id"}}
    \cup {[op |-> "insert", data |-> d, returning |-> r] : d \in Dicts, r \in {"", "id"}}
    \cup {[op |-> "delete", where |-> w, returning |-> r] : w \in WhereInputs, r \in {"", "id"}}
    \cup {[op |-> "create_table", fields |-> f, pk_column |-> pk] :
        f \in Schemas, pk \in {"", "id"}}

\* a connector that __init__ has just returned, given a credentials mapping
InitQuery ==
    /\ obj = "live"
    /\ secretStore = CredA
    /\ credentials = Some(CredA)
    /\ host = CredA.host /\ port = CredA.port /\ user = CredA.username
    /\ pwd = CredA.password /\ db = "dev"
    /\ conn = 1 /\ cursor = 1 /\ cursorClosed = FALSE
    /\ autocommitArg \in BOOLEAN
    /\ conns = <<[Connected([db |-> "dev", host |-> CredA.host, port |-> CredA.port,
                             user |-> CredA.username, pwd |-> CredA.password])
                  EXCEPT !.autocommit = autocommitArg]>>
    /\ last = NoOp
    /\ call \in QueryCalls

RetrieveCall ==
    /\ call.op = "retrieve"
    /\ \E err \in DbErrors :
          Retrieve("t", call.cols, call.where, call.order, call.limit, call.unlimited, err)
    /\ call' = NoCall

UpdateCall ==
    /\ call.op = "update"
    /\ \E err \in DbErrors : Update("t", call.data, call.where, call.returning, err)
    /\ call' = NoCall

InsertCall ==
    /\ call.op = "insert"
    /\ \E err \in DbErrors : Insert("t", call.data, call.returning, err)
    /\ call' = NoCall

DeleteCall ==
    /\ call.op = "delete"
    /\ \E err \in DbErrors : Delete("t", call.where, call.returning, err)
    /\ call' = NoCall

CreateTableCall ==
    /\ call.op = "create_table"
    /\ \E err \in DbErrors : CreateTable(call.fields, "public", "t", call.pk_column, err)
    /\ call' = NoCall

NextQuery ==
    \/ RetrieveCall
    \/ UpdateCall
    \/ InsertCall
    \/ DeleteCall
    \/ CreateTableCall

SpecQuery == InitQuery /\ [][NextQuery]_vars


----------------------------------------------------------------------------
(* Properties of the query operations, checked under SpecQuery *)

\* the pieces of s that are not the separator
Items(s, sep) == SelectSeq(s, LAMBDA t : t # sep)

\* the pieces of s strictly between its first piece a and its first piece b
Between(s, a, b) == SubSeq(s, IndexOf(s, a) + 1, IndexOf(s, b) - 1)

\* s split at every separator piece
RECURSIVE Split(_, _)
Split(s, sep) ==
    IF Len(s) = 0 THEN <<>>
    ELSE LET i == IndexOf(s, sep)
         IN  IF i = 0 THEN <<s>>
             ELSE <<SubSeq(s, 1, i - 1)>> \o Split(SubSeq(s, i + 1, Len(s)), sep)

RetrieveLimited ==
    /\ last.op = "retrieve" /\ last.raised = "none"
    /\ last.args.limit > 0
    /\ Len(last.args.unlimited) >= last.args.limit

\* C1 as stated: with limit n and an unlimited result of m >= n rows, retrieve
\* returns the last n rows of the unlimited result.
C1_ReturnsLastRows ==
    RetrieveLimited =>
        last.result = SubSeq(last.args.unlimited,
                             Len(last.args.unlimited) - last.args.limit + 1,
                             Len(last.args.unlimited))

\* C1 amended: with limit n and an unlimited result of m >= n rows, retrieve sends
\* LIMIT n to the database and returns the n rows fetched whole, that is the first n
\* rows of the unlimited result.
C1_ReturnsFirstRows ==
    RetrieveLimited =>
        /\ last.result = SubSeq(last.args.unlimited, 1, last.args.limit)
        /\ Between(last.sql \o <<"$">>, " LIMIT ", "$") = <<Fmt_d(last.args.limit)>>

C1_Witness ==
    /\ RetrieveLimited
    /\ Len(last.args.unlimited) > last.args.limit
    /\ Len(last.result) = last.args.limit

\* the value sequence of a where condition, empty when where is absent or has none
WhereValues(where) ==
    IF where # None /\ Len(where[1]) >= 2 THEN where[1][2] ELSE <<>>

\* C3: the bind sequence update passes to execution is the values of data in mapping
\* order followed by the values of the where condition; it is exactly the values of
\* data when where is absent or has no value sequence.
C3_UpdateBinds ==
    last.op = "update" =>
        LET d == last.args.data
            w == WhereValues(last.args.where)
            b == last.params[1]
        IN  /\ last.params # None
            /\ Len(b) = Len(d) + Len(w)
            /\ \A i \in 1..Len(d) : b[i] = d[i].v
            /\ \A j \in 1..Len(w) : b[Len(d) + j] = w[j]
            /\ "cursor.execute" \in Range(last.calls)

C3_Witness ==
    /\ last.op = "update" /\ last.raised = "none"
    /\ Len(last.args.data) = 2
    /\ Len(WhereValues(last.args.where)) = 2
    /\ Len(last.params[1]) = 4

\* C9: create_table emits, for each (column, type tag) pair in order, the column name,
\* quoted exactly when it is a reserved word, followed by the SQL type of the tag; a tag
\* that is none of string/int/integer/double fails with KeyError and executes nothing.
C9_CreateTableColumns ==
    last.op = "create_table" =>
        LET f == last.args.fields
            known == \A i \in 1..Len(f) : f[i].tag \in {"string", "int", "integer", "double"}
            closing == IF last.args.pk_column # "" THEN "), PRIMARY KEY (" ELSE ");"
            defs == Split(Between(last.sql, " (", closing), ",")
        IN  IF ~known
            THEN last.raised = "KeyError" /\ last.calls = <<>> /\ last.sql = <<>>
            ELSE /\ last.raised # "KeyError"
                 /\ Len(last.calls) > 0 /\ last.calls[1] = "cursor.execute"
                 /\ Len(defs) = Len(f)
                 /\ \A i \in 1..Len(f) :
                       LET ty == CASE f[i].tag = "string" -> "VARCHAR(256)"
                                   [] f[i].tag \in {"int", "integer"} -> "INTEGER"
                                   [] f[i].tag = "double" -> "NUMERIC(18,0)"
                       IN  defs[i] = IF f[i].col = "year"
                                     THEN <<"\"", f[i].col, "\"", " ", ty>>
                                     ELSE <<f[i].col, " ", ty>>

C9_Witness ==
    /\ last.op = "create_table" /\ last.raised = "none"
    /\ Len(last.args.fields) = 2
    /\ last.args.fields[1].col = "year" /\ last.args.fields[2].col = "id"
    /\ "\"" \in Range(last.sql)

\* C10: insert emits a column list and a placeholder list of the same length, the
\* number of keys of data, with the columns in the mapping's iteration order, and binds
\* the values of data in that same order.
C10_InsertColumnsAndPlaceholders ==
    last.op = "insert" =>
        LET d == last.args.data
            cols == Between(last.sql, " (", ") VALUES(")
            vals == Between(last.sql, ") VALUES(", ")")
        IN  /\ cols = Join(Items(cols, ","), ",")
            /\ vals = Join(Items(vals, ","), ",")
            /\ Len(Items(cols, ",")) = Len(d)
            /\ Len(Items(vals, ",")) = Len(d)
            /\ \A i \in 1..Len(d) : Items(cols, ",")[i] = d[i].k /\ Items(vals, ",")[i] = "%s"
            /\ last.params = Some([i \in 1..Len(d) |-> d[i].v])
            /\ "cursor.execute" \in Range(last.calls)

C10_Witness ==
    /\ last.op = "insert" /\ last.raised = "none"
    /\ Len(last.args.data) = 2
    /\ last.args.data[1].k = "name" /\ last.args.data[2].k = "id"

----------------------------------------------------------------------------
(* Properties of the connector's life cycle, checked under Spec *)

\* C2 as stated: switch_database closes the prior session before it opens the new
\* one, so that as long as close() has not run the connector holds exactly one open
\* connection, the current one.
C2_SingleOpenConnection ==
    (obj = "live" /\ ~cursorClosed) => OpenConns = {conn}

\* the names a trace gives to the exceptions of the database client and the secret store
ClientExceptions ==
    (DbErrors \ {"none"}) \cup {"InterfaceError", "EndpointConnectionError"}
        \cup LoggedCodes \cup OtherCodes

\* the positions of the trace where a statement was sent
Sent(calls) == {i \in 1..Len(calls) : calls[i] \in {"cursor.execute", "execute_values"}}

\* the positions of the trace where sending a statement raised
SentAndRaised(calls) ==
    {i \in Sent(calls) : i < Len(calls) /\ calls[i + 1] \in ClientExceptions}

\* the operations whose statement goes through _execute, and execute()
WrappingOps ==
    {"create", "truncate", "drop", "copy_from_s3_to_rs", "create_schema", "execute",
     "retrieve", "insert", "update", "delete", "create_table"}

\* C4 as stated: on every path that sends a statement, an error of the client is
\* logged and then re-raised to the caller, and the statement is sent once.
C4_EveryPathLogs ==
    \A i \in SentAndRaised(last.calls) :
        /\ i + 2 <= Len(last.calls) /\ last.calls[i + 2] = "print(error)"
        /\ last.raised = last.calls[i + 1]
        /\ Cardinality(Sent(last.calls)) = 1

\* C4 amended: on every path that sends a statement, an error of the client reaches
\* the caller unchanged and the statement is sent once; the diagnostic is printed
\* before the re-raise by the operations that go through _execute and by execute(),
\* and by no other operation (retrieve_dict, insert_many, list_tables, get_version).
C4_ErrorsPropagateOnce ==
    \A i \in SentAndRaised(last.calls) :
        /\ last.raised = last.calls[i + 1]
        /\ Cardinality(Sent(last.calls)) = 1
        /\ IF last.op \in WrappingOps
           THEN last.calls = SubSeq(last.calls, 1, i + 1) \o <<"print(error)">>
           ELSE /\ last.op \in {"retrieve_dict", "insert_many", "list_tables", "get_version"}
                /\ "print(error)" \notin Range(last.calls)
                /\ Len(last.calls) = i + 1

C4_Witness ==
    /\ last.op = "retrieve_dict"
    /\ last.raised = "OperationalError"
    /\ SentAndRaised(last.calls) # {}

\* the secret lookup of __init__ raised
LookupFailed ==
    /\ last.op = "__init__"
    /\ Len(last.calls) >= 2
    /\ last.calls[1] = "get_secret_value"
    /\ last.calls[2] \in ClientExceptions

Lookups == Cardinality({i \in 1..Len(last.calls) : last.calls[i] = "get_secret_value"})

\* C5 as stated: on any retrieval failure get_credentials prints a diagnostic, leaves
\* the credential unset and fails at the assertion, after one lookup and with no
\* connection opened.
C5_FailureLogsAndAsserts ==
    LookupFailed =>
        /\ "print(error)" \in Range(last.calls)
        /\ last.raised = "AssertionError"
        /\ Lookups = 1
        /\ credentials = None /\ conns = <<>> /\ "connect" \notin Range(last.calls)

\* C5 amended: on a retrieval failure there is one lookup, the credential stays unset
\* and no connection is opened; a ClientError ends in the failed assertion, with a
\* diagnostic exactly when its code is one of the five codes the handler names; an
\* error that is no ClientError leaves get_credentials as it is, with no diagnostic.
C5_FailureLeavesUnset ==
    LookupFailed =>
        /\ Lookups = 1
        /\ obj = "failed"
        /\ credentials = None /\ conn = 0 /\ conns = <<>> /\ "connect" \notin Range(last.calls)
        /\ IF last.calls[2] \in LoggedCodes
           THEN last.raised = "AssertionError"
                /\ last.calls = <<"get_secret_value", last.calls[2], "print(error)">>
           ELSE IF last.calls[2] \in OtherCodes
           THEN last.raised = "AssertionError" /\ Len(last.calls) = 2
           ELSE last.raised = last.calls[2] /\ Len(last.calls) = 2

C5_Witness ==
    /\ LookupFailed
    /\ last.calls[2] = "DecryptionFailure"
    /\ last.raised = "AssertionError"

\* the credentials connection i was opened with
UsedBy(i) ==
    [host |-> conns[i].host, port |-> conns[i].port,
     username |-> conns[i].user, password |-> conns[i].password]

CredentialsInUse ==
    credentials # None =>
        /\ \A i \in 1..Len(conns) : UsedBy(i) = credentials[1]
        /\ conns # <<>> =>
              [host |-> host, port |-> port, username |-> user, password |-> pwd]
                  = credentials[1]

\* C6: once resolved the credentials never change, and every connection, the one of
\* __init__ and the one of each switch_database, is opened with the host, port,
\* username and password resolved at construction.
C6_CredentialsImmutable ==
    /\ []CredentialsInUse
    /\ [][credentials # None => credentials' = credentials]_vars

C6_Witness ==
    /\ last.op = "switch_database" /\ last.raised = "none"
    /\ Len(conns) >= 2
    /\ secretStore # credentials[1]
    /\ UsedBy(conn) = credentials[1]

\* C8: create, truncate, drop and copy send their one statement and then commit; the
\* commit follows the statement and is issued only if the statement did not raise.
C8_CommitAfterStatement ==
    last.op \in {"create", "truncate", "drop", "copy_from_s3_to_rs"} =>
        /\ last.calls[1] = "cursor.execute"
        /\ Cardinality(Sent(last.calls)) = 1
        /\ IF SentAndRaised(last.calls) # {}
           THEN /\ "conn.commit" \notin Range(last.calls)
                /\ last.raised = last.calls[2]
           ELSE /\ last.calls = <<"cursor.execute", "conn.commit">>
                /\ last.raised = "none"
                /\ ~conns[conn].pending

C8_Witness ==
    /\ last.op = "drop"
    /\ last.raised = "ProgrammingError"
    /\ last.sql = <<"DROP TABLE IF EXISTS ", "t", " CASCADE">>


\* the rows a successful execute() handed back
ExecuteRows == IF last.op = "execute" /\ last.raised = "none" THEN Range(last.result) ELSE {}

\* C11 as stated: execute(sql, return_type) selects its result shape from
\* return_type: with return_type None the rows come back as positional tuples from
\* a plain cursor, and with 'd' or 'dict' as column-name-keyed mappings from a dict
\* cursor.
C11_ShapeFollowsReturnType ==
    (last.op = "execute" /\ last.raised = "none") =>
        IF last.args.return_type = None
        THEN /\ last.calls[1] = "conn.cursor"
             /\ \A r \in ExecuteRows : r.shape = "tuple"
        ELSE /\ last.calls[1] = "conn.cursor(RealDictCursor)"
             /\ \A r \in ExecuteRows : r.shape = "dict"

\* the connection the shared cursor of _execute runs its statements on is the one
\* commit / rollback and fresh cursors use
SharedCursorOnCurrent == cursor = conn

\* C12 as stated: after switch_database(name) returns, the operations that use the
\* shared cursor, the operations that open a fresh cursor, and commit / rollback
\* all act on the new connection to the named database, and that connection has
\* the autocommit value the caller supplied at construction.
C12_SwitchedConnectionInUse ==
    (obj = "live" /\ conn # 0) =>
        /\ SharedCursorOnCurrent
        /\ conns[conn].autocommit = autocommitArg
        /\ (last.op = "switch_database" /\ last.raised = "none") => conns[conn].database = db

----------------------------------------------------------------------------
(* The request handlers.  A handler run is recorded in last: calls is the trace *)
(* of what the handler called (a call that raised is followed by the name of    *)
(* its exception), raised the exception that left the handler, result the       *)
(* response it returned: None, or Some(response).                               *)

\* str(e) for the exceptions a handler can catch
Str(e) ==
    CASE e = "ProgrammingError" -> "relation does not exist"
      [] e = "OperationalError" -> "server closed the connection unexpectedly"
      [] e = "InterfaceError" -> "connection already closed"
      [] e = "TypeError" -> "'NoneType' object does not support item assignment"
      [] e = "ValueError" -> "invalid literal for int() with base 10"
      [] e = "AttributeError" -> "'NoneType' object has no attribute 'isdigit'"
      [] OTHER -> e

\* the outcome of a piece of handler code: what it returned or raised, and its trace
Returned(trace, response) == [trace |-> trace, raised |-> "none", response |-> response]
Raised(trace, e) == [trace |-> trace, raised |-> e, response |-> None]

\* the status insert_event_to_dynamoDb reports for the audit entry
AuditStatus == "200"

\* read_asset(event, context, database) of the data-asset API; rows and err are the
\* outcome of its retrieve_dict
read_asset(ev, rows, err) ==
    IF err = "none"
    THEN Returned(<<"retrieve_dict", "database.close", "insert_event_to_dynamoDb">>,
                  Some([statusCode |-> "200", sourceCodeDynamoDb |-> AuditStatus,
                        body |-> [rows |-> rows]]))
    ELSE Returned(<<"retrieve_dict", err, "database.close", "print(e)",
                    "insert_event_to_dynamoDb">>,
                  Some([statusCode |-> "404", sourceCodeDynamoDb |-> AuditStatus,
                        body |-> [error |-> Str(err)]]))

\* lambda_handler(event, context) of the data-asset API
DataAssetHandler ==
    /\ call.op = "data-asset"
    /\ \E rows \in {<<>>, <<1>>}, err \in DbErrors :
          LET r == IF call.method = "health"
                   THEN Returned(<<>>, Some([statusCode |-> "200", body |-> "API Health is good"]))
                   ELSE IF call.method = "read"
                   THEN LET x == read_asset(call, rows, err)
                        IN  [x EXCEPT !.trace = <<"get_database">> \o x.trace]
                   ELSE Returned(<<>>, Some([statusCode |-> "404", body |-> "Not found"]))
          IN  last' = Op("data-asset", call, <<>>, None, r.trace, r.raised, r.response)
    /\ call' = NoCall
    /\ UNCHANGED <<obj, secretStore, credentials, host, port, user, pwd, db, conn, cursor,
                   cursorClosed, autocommitArg, conns>>

\* fetch_limit in [None, 'None', '0', 'NONE']
NoFetchLimit(fl) == fl.kind = "none" \/ (fl.kind = "str" /\ fl.s \in {"None", "0", "NONE"})

\* str.isdigit() on the strings of the model
IsDigit(x) == x \in Range(Digits)

\* read_target_system(method, metadata_db, fetch_limit, source_payload, global_config)
\* of read.py; rows and err are the outcome of the one retrieve_dict it makes
read_target_system(fl, payload, rows, err) ==
    LET query(name) == IF err # "none" THEN Raised(Call(name, err), err)
                       ELSE Returned(<<name>>, Some(rows))
        info ==
            IF NoFetchLimit(fl) /\ payload.kind # "none"
            THEN IF payload.kind = "list" THEN query("retrieve_dict(target_id in)")
                 ELSE IF payload.kind = "str" /\ ~IsDigit(payload.s)
                 THEN Raised(<<>>, "ValueError")
                 ELSE query("retrieve_dict(target_id=)")
            ELSE IF fl.kind = "none" THEN Raised(<<>>, "AttributeError")
            ELSE IF fl.kind = "int" \/ IsDigit(fl.s) THEN query("retrieve_dict(limit)")
            ELSE IF fl.s = "all" THEN query("retrieve_dict()")
            ELSE Returned(<<>>, None)
    IN  IF info.raised # "none" THEN info
        ELSE IF Truthy(info.response)
        THEN Returned(info.trace \o <<"Response.get_response">>,
                      Some([responseStatus |-> TRUE, body |-> [rows |-> info.response[1]]]))
        ELSE Returned(info.trace \o <<"Response.get_response">>,
                      Some([responseStatus |-> FALSE,
                            body |-> [message |-> "The information about the resource DNE"]]))

\* read_target_sys(method, metadata_db, event, context)
read_target_sys(ev, rows, err) ==
    LET r == read_target_system(ev.fetch_limit, ev.payload, rows, err)
    IN  IF r.raised # "none" THEN r
        ELSE Returned(r.trace \o <<"insert_event_to_dynamoDb">>, r.response)

\* update_target_sys(method, metadata_db, redshift_db, event, context); inner is the
\* outcome of update_target_system
update_target_sys(inner) ==
    IF inner.raised # "none"
    THEN \* api_response is still None when the finally clause subscripts it
         Raised(inner.trace \o <<"print(e)", "insert_event_to_dynamoDb">>, "TypeError")
    ELSE Returned(inner.trace \o <<"insert_event_to_dynamoDb">>, inner.response)

\* create_target_sys(method, metadata_conn, redshift_conn, event, context); inner is
\* the outcome of create_target_system
create_target_sys(inner) ==
    IF inner.raised # "none" THEN inner
    ELSE Returned(inner.trace \o <<"insert_event_to_dynamoDb">>, inner.response)

\* delete_target_sys(method, metadata_db, redshift_db, event, context); inner is the
\* outcome of delete_target_system, called once int(target_id) has succeeded
delete_target_sys(payload, inner) ==
    IF payload.kind \in {"none", "list"} THEN Raised(<<>>, "TypeError")
    ELSE IF payload.kind = "str" /\ ~IsDigit(payload.s) THEN Raised(<<>>, "ValueError")
    ELSE IF inner.raised # "none" THEN inner
    ELSE Returned(inner.trace \o <<"insert_event_to_dynamoDb">>, inner.response)

\* the try / except / finally of the target-system lambda_handler around the
\* method's code
guarded(r) ==
    IF r.raised # "none"
    THEN Returned(r.trace \o <<"print(e)", "metadata_conn.rollback", "metadata_conn.close">>,
                  None)
    ELSE Returned(r.trace \o <<"metadata_conn.close">>, r.response)

\* create_target_system, update_target_system and delete_target_system are called
\* here and defined elsewhere: each returns a response, and update_target_system,
\* which its caller wraps in try / except, may raise instead
Inner(name, ok, err) ==
    IF err # "none" THEN Raised(Call(name, err), err)
    ELSE Returned(<<name>>, Some([responseStatus |-> ok, body |-> [rows |-> <<>>]]))

\* lambda_handler(event, context) of the target-system API
TargetSystemHandler ==
    /\ call.op = "target-system"
    /\ \E rows \in {<<>>, <<1>>}, err \in DbErrors, ok \in BOOLEAN,
          secretOutcome \in {"SecretString", "DecryptionFailure"} :
          LET opened == <<"Connector.__init__">>
                           \o Call("RedshiftConnector.__init__",
                                   get_credentials(secretOutcome).raised)
              m == call.method
              body == IF m = "health"
                      THEN Returned(<<>>, Some([statusCode |-> "200", body |-> "API Health is good"]))
                      ELSE IF m = "create"
                      THEN create_target_sys(Inner("create_target_system", ok, "none"))
                      ELSE IF m = "read" THEN read_target_sys(call, rows, err)
                      ELSE IF m = "update" THEN update_target_sys(Inner("update_target_system", ok, err))
                      ELSE IF m = "delete"
                      THEN delete_target_sys(call.payload,
                                             Inner("delete_target_system", ok, "none"))
                      ELSE Returned(<<>>, Some([statusCode |-> "404", body |-> "Not found"]))
              r == IF get_credentials(secretOutcome).raised # "none"
                   THEN Raised(<<>>, get_credentials(secretOutcome).raised)
                   ELSE guarded(body)
          IN  last' = Op("target-system", call, <<>>, None, opened \o r.trace, r.raised, r.response)
    /\ call' = NoCall
    /\ UNCHANGED <<obj, secretStore, credentials, host, port, user, pwd, db, conn, cursor,
                   cursorClosed, autocommitArg, conns>>

FetchLimits ==
    {[kind |-> "none", s |-> "", n |-> 0], [kind |-> "int", s |-> "", n |-> 0],
     [kind |-> "int", s |-> "", n |-> 2]}
    \cup {[kind |-> "str", s |-> x, n |-> 0] : x \in {"None", "0", "NONE", "2", "all", "abc"}}

Payloads ==
    {[kind |-> "none", s |-> "", n |-> 0, l |-> <<>>], [kind |-> "int", s |-> "", n |-> 1, l |-> <<>>],
     [kind |-> "str", s |-> "1", n |-> 0, l |-> <<>>], [kind |-> "str", s |-> "x", n |-> 0, l |-> <<>>],
     [kind |-> "list", s |-> "", n |-> 0, l |-> <<1, 2>>]}

HandlerEvents ==
    {[op |-> "data-asset", method |-> m, src_sys_id |-> i] :
        m \in {"health", "read", "other"}, i \in {41, 42}}
    \cup {[op |-> "target-system", method |-> m, fetch_limit |-> fl, payload |-> pl] :
        m \in {"health", "create", "read", "update", "delete", "other"},
        fl \in FetchLimits, pl \in Payloads}

\* no connector yet, one request about to arrive
InitHandler ==
    /\ obj = "none"
    /\ secretStore \in CredSet
    /\ credentials = None
    /\ host = "unset" /\ port = 0 /\ user = "unset" /\ pwd = "unset" /\ db = "unset"
    /\ conn = 0 /\ cursor = 0 /\ cursorClosed = FALSE
    /\ autocommitArg = FALSE
    /\ conns = <<>>
    /\ last = NoOp
    /\ call \in HandlerEvents

NextHandler ==
    \/ DataAssetHandler
    \/ TargetSystemHandler

SpecHandler == InitHandler /\ [][NextHandler]_vars

\* a connector operation raised inside the handler
ConnectorOps ==
    {"retrieve_dict", "retrieve_dict(target_id in)", "retrieve_dict(target_id=)",
     "retrieve_dict(limit)", "retrieve_dict()",
     "create_target_system", "update_target_system", "delete_target_system"}

FailedOps(calls) ==
    {i \in 1..Len(calls) : calls[i] \in ConnectorOps /\ i < Len(calls)
                            /\ calls[i + 1] \in ClientExceptions}

\* C7 as stated: when a connector operation fails inside a request handler, the
\* handler returns an error-shaped response that carries str(e), in the data-asset
\* read handler and in every method of the target-system handler.
C7_ErrorResponse ==
    (last.op \in {"data-asset", "target-system"} /\ FailedOps(last.calls) # {}) =>
        /\ last.raised = "none"
        /\ last.result # None
        /\ \E i \in FailedOps(last.calls) :
              last.result[1].body = [error |-> Str(last.calls[i + 1])]

\* positions of a call in a handler's trace
At(calls, name) == {i \in 1..Len(calls) : calls[i] = name}

\* the connections the target-system handler opened: a constructor that raised
\* (its name is followed by the exception it raised) opened none
Opened(calls) ==
    {c \in {"Connector", "RedshiftConnector"} :
        \E i \in At(calls, c \o ".__init__") :
            i = Len(calls) \/ calls[i + 1] # last.raised}

\* the variable lambda_handler binds each connector to
Handle(c) == IF c = "Connector" THEN "metadata_conn" ELSE "redshift_conn"

\* C13 as stated: in the target-system lambda_handler every connection opened for
\* an invocation (metadata_conn and redshift_conn) has been closed by the time the
\* handler returns, on every path; when a handler step raises, rollback on the
\* metadata connection happens before its close.
C13_ConnectionsClosed ==
    last.op = "target-system" =>
        /\ \A c \in Opened(last.calls) : At(last.calls, Handle(c) \o ".close") # {}
        /\ At(last.calls, "print(e)") # {} =>
              \E i \in At(last.calls, "metadata_conn.rollback"),
                 j \in At(last.calls, "metadata_conn.close") : i < j

====
